---- MODULE Spec2Model ----
(***************************************************************************)
(* Model of prompt_toolkit's layout core: the Screen buffer                *)
(* (layout/screen.py) and the input processors (layout/processors.py).     *)
(* Characters are one-character strings; a text is a sequence of           *)
(* characters; a token stream is a sequence of <<token, text>> fragments.  *)
(***************************************************************************)
EXTENDS Integers, Sequences, FiniteSets, TLC

VARIABLES
    buffer,                     \* Screen._buffer: <<y, x>> -> Char, written cells only
    width,                      \* Screen.width
    cursor_position,            \* Screen.cursor_position, Point(y, x)
    menu_position,              \* Screen.menu_position
    current_height,             \* Screen.current_height
    screen_line_to_input_line,  \* Screen.screen_line_to_input_line: row -> line number
    op,                         \* the last operation performed
    calls,                      \* number of write_data calls so far
    data,                       \* write_data's argument `data`
    target_width,               \* write_data's argument `width`
    margin,                     \* write_data's argument `margin`
    indexes_to_pos,             \* write_data's return value: index -> <<x, y>>
    writes,                     \* cells stored by the last write_data, in order
    line_feeds,                 \* the do_line_feed calls of the last write_data, in order
    consumed,                   \* the offsets the loop of the last write_data went through
    wraps,                      \* soft wraps of the last write_data
    input,                      \* the token list handed to the first processor
    tokens,                     \* the list passed to the last Processor.run, after the run
    result,                     \* the token list the last Processor.run returned
    remap,                      \* the index function the last Processor.run returned
    proc,                       \* the processor that ran last
    mask,                       \* PasswordProcessor.char of the last run
    stages,                     \* number of Processor.run calls so far
    chain,                      \* the processors run so far, in order
    composed,                   \* the remaps so far composed: offset in `input` -> offset in `result`
    invoked,                    \* the run methods called during the last Processor.run
    hash,                       \* invalidation_hash of the processor that ran last
    document_text,              \* buffer.document.text
    buffer_cursor_position,     \* buffer.cursor_position
    isearch_state,              \* buffer.isearch_state: None, or its isearch_text
    selection_range,            \* buffer.document.selection_range(): None, or (from, to)
    is_returning,               \* cli.is_returning
    has_focus,                  \* cli.current_buffer == buffer
    write_position              \* the last WritePosition(...) call and its outcome

screen_vars == <<buffer, width, cursor_position, menu_position, current_height,
                 screen_line_to_input_line, op, calls, data, target_width, margin,
                 indexes_to_pos, writes, line_feeds, consumed, wraps>>

proc_vars == <<input, tokens, result, remap, proc, mask, stages, chain, composed,
               invoked, hash>>

\* The CommandLineInterface and the Buffer as the processors read them.
cli_vars == <<document_text, buffer_cursor_position, isearch_state, selection_range,
              is_returning, has_focus>>

vars == <<screen_vars, proc_vars, cli_vars, write_position>>

-----------------------------------------------------------------------------
(* Bounds of the model. *)

MaxLen == 3         \* longest enumerated stream of one write_data (fragments)
MaxWidth == 3       \* largest target width
MaxCalls == 2       \* write_data calls in a sequence of calls
SeqLen == 1         \* longest stream in a sequence of calls
MaxTokens == 4      \* longest token list given to a processor (fragments)
MaxStages == 2      \* Processor.run calls in a chain
PipeLen == 2        \* longest token list given to a chain of stages (fragments)
HLLen == 3          \* longest enumerated text of a highlighted buffer (characters)
MaxCoord == 2       \* largest coordinate or dimension given to WritePosition

-----------------------------------------------------------------------------
(* Generic helpers. *)

EmptyMap == [k \in {} |-> 0]

Put(f, k, v) == [p \in (DOMAIN f) \cup {k} |-> IF p = k THEN v ELSE f[p]]

Max(a, b) == IF a >= b THEN a ELSE b

RECURSIVE SeqsUpTo(_, _)
SeqsUpTo(S, n) ==
    IF n = 0 THEN {<<>>}
    ELSE LET shorter == SeqsUpTo(S, n - 1)
         IN  shorter \cup {Append(s, e) : s \in {t \in shorter : Len(t) = n - 1}, e \in S}

-----------------------------------------------------------------------------
(* Characters and cells. *)

NL  == "\n"         \* line feed, U+000A
BEL == "BEL"        \* U+0007, a control character
NUL == "NUL"        \* U+0000 (six.unichr(0))
CMB == "CMB"        \* U+0301, a combining (zero width) character
WIDE == "W"         \* U+4E2D, an East Asian wide character

Token == "Token"    \* pygments' root token, the default of Char

\* Char.display_mappings: control characters are shown in caret notation.
display_mappings(char) ==
    CASE char = NUL -> "^@"
      [] char = BEL -> "^G"
      [] char = NL  -> "^J"
      [] OTHER      -> char

\* prompt_toolkit.utils.get_cwidth: the number of columns of a string.
get_cwidth(string) ==
    CASE string = CMB -> 0
      [] string = WIDE -> 2
      [] string \in {"^@", "^G", "^J"} -> 2
      [] OTHER -> 1

\* Char.__init__
Char(char, token) ==
    LET shown == display_mappings(char)
    IN  [char |-> shown, token |-> token, width |-> get_cwidth(shown)]

\* _CHAR_CACHE[char, token]: CharCache.__missing__ builds Char(*key) once.
CharCache(char, token) == Char(char, token)

-----------------------------------------------------------------------------
(* Token streams. *)

\* The iteration order of `for token, text in data: for char in text`:
\* the stream as a sequence of <<token, char>> pairs.
RECURSIVE Flatten(_)
Flatten(stream) ==
    IF stream = <<>> THEN <<>>
    ELSE LET token == stream[1][1]
             text  == stream[1][2]
         IN  [i \in 1..Len(text) |-> <<token, text[i]>>] \o Flatten(Tail(stream))

-----------------------------------------------------------------------------
(* The margin argument of write_data: None, or a callable from a line      *)
(* number (None for a line continuation) to a list of (token, text).       *)

MarginNone == "None"

\* `number is None`: a line number is <<n>>, None is <<>>.
NoNumber == <<>>
Number(n) == <<n>>

\* The margin callables passed by the callers modelled here.
margin_call(m, number) ==
    CASE m = "numbers" ->   \* line numbers, a dot on continuation lines
            IF number = NoNumber THEN << <<"Token.LineNumber", <<".">>>> >>
            ELSE << <<"Token.LineNumber", <<ToString(number[1])>>>> >>
      [] m = "wide" ->      \* a wide character, nothing on continuation lines
            IF number = NoNumber THEN <<>>
            ELSE << <<"Token.Prompt", <<WIDE>>>> >>
      [] m = "prompt" ->    \* a two column prompt on every row
            IF number = NoNumber THEN << <<"Token.Prompt", <<".", ".">>>> >>
            ELSE << <<"Token.Prompt", <<">">>>>, <<"Token.Prompt", <<" ">>>> >>

Margins == {MarginNone, "numbers", "wide", "prompt"}

-----------------------------------------------------------------------------
(* Screen.write_data.  The loop state `st` holds the locals x, y, index,   *)
(* line_number, requires_line_feed, indexes_to_pos and the two objects     *)
(* the loop mutates, buffer and screen_line_to_input_line.                 *)

\* buffer[y][x] = char_obj
Store(st, y, x, char_obj) ==
    [st EXCEPT !.buffer = Put(@, <<y, x>>, char_obj),
               !.writes = Append(@, [y |-> y, x |-> x, cell |-> char_obj])]

\* Char(six.unichr(0)): what is stored in the second cell of a double width
\* character.
SecondCell == Char(NUL, Token)

\* One character: store it, store SecondCell after a double width character,
\* move the position.
PutChar(st, char_obj) ==
    LET s1 == Store(st, st.y, st.x, char_obj)
        s2 == IF char_obj.width > 1
              THEN Store(s1, st.y, st.x + 1, SecondCell)
              ELSE s1
    IN  [s2 EXCEPT !.x = @ + char_obj.width]

RECURSIVE InsertMargin(_, _, _)
InsertMargin(st, flat, i) ==
    IF i > Len(flat) THEN st
    ELSE InsertMargin(PutChar(st, CharCache(flat[i][2], flat[i][1])), flat, i + 1)

\* What is kept of a call do_line_feed(x, number): its argument, the row
\* and the offset the loop is at, whether the character at that offset has
\* its position already, and whether margin(number) is called.
LineFeed(st, number, m) ==
    [number |-> number, y |-> st.y, index |-> st.index,
     placed |-> st.index \in DOMAIN st.indexes_to_pos,
     called |-> m # MarginNone]

\* do_line_feed(x, number): x and y are the loop's current x and y.
do_line_feed(st, number, m) ==
    LET s1 == IF number # NoNumber
              THEN [st EXCEPT !.screen_line_to_input_line = Put(@, st.y, number[1])]
              ELSE st
        s2 == [s1 EXCEPT !.line_feeds = Append(@, LineFeed(st, number, m))]
    IN  IF m # MarginNone
        THEN InsertMargin(s2, Flatten(margin_call(m, number)), 1)
        ELSE s2

\* Mutants of the test below: an off-by-one bound, a test that forgets the
\* width of the character, and one that forgets the newline.
NoPlaceLeft_OffByOne(x, char_width, max_x, char) == x + char_width >= max_x /\ char # NL
NoPlaceLeft_LateWrap(x, char_width, max_x, char) == x + char_width > max_x + 1 /\ char # NL
NoPlaceLeft_IgnoresWidth(x, char_width, max_x, char) == x + 1 > max_x /\ char # NL
NoPlaceLeft_WrapsNewline(x, char_width, max_x, char) == x + char_width > max_x

\* `if x + char_width > max_x and char != '\n'`: no more place left at this
\* line, go first to the following line.
NoPlaceLeft(x, char_width, max_x, char) == x + char_width > max_x /\ char # NL

\* The line number handed to do_line_feed at a soft wrap; the mutant gives
\* the number of the line.
WrapNumber_Numbered(line_number) == Number(line_number)
WrapNumber(line_number) == NoNumber

\* The body of the loop for one character of the stream.
WriteChar(st, token, char, max_x, m) ==
    LET s1 == IF st.requires_line_feed
              THEN [do_line_feed(st, Number(st.line_number), m)
                        EXCEPT !.requires_line_feed = FALSE]
              ELSE st
        char_obj == CharCache(char, token)
        char_width == char_obj.width
        s2 == IF NoPlaceLeft(s1.x, char_width, max_x, char)
              THEN do_line_feed([s1 EXCEPT !.y = @ + 1, !.x = 0, !.wraps = @ + 1],
                                WrapNumber(s1.line_number), m)
              ELSE s1
        s3 == [s2 EXCEPT !.indexes_to_pos = Put(@, s2.index, <<s2.x, s2.y>>),
                         !.consumed = Append(@, s2.index)]
        s4 == IF char = NL
              THEN [s3 EXCEPT !.y = @ + 1, !.x = 0,
                              !.requires_line_feed = TRUE,
                              !.line_number = @ + 1]
              ELSE PutChar(s3, char_obj)
    IN  [s4 EXCEPT !.index = @ + 1]

RECURSIVE WriteLoop(_, _, _, _, _)
WriteLoop(st, flat, i, max_x, m) ==
    IF i > Len(flat) THEN st
    ELSE WriteLoop(WriteChar(st, flat[i][1], flat[i][2], max_x, m),
                   flat, i + 1, max_x, m)

\* The locals of write_data before its loop.
WriteStart(buf, s2i) ==
    [x |-> 0, y |-> 0, index |-> 0, line_number |-> 0,
     requires_line_feed |-> TRUE, indexes_to_pos |-> EmptyMap,
     buffer |-> buf, screen_line_to_input_line |-> s2i,
     writes |-> <<>>, line_feeds |-> <<>>, consumed |-> <<>>, wraps |-> 0]

\* write_data(data, width, margin): the loop state at its end.
write_data(buf, s2i, d, w, m) ==
    WriteLoop(WriteStart(buf, s2i), Flatten(d), 1, 0 + w, m)

\* Mutant of the height update: the height of this call only.
NewHeight_NoMax(height, y) == y + 1

\* self.current_height = max(self.current_height, y+1)
NewHeight(height, y) == Max(height, y + 1)

-----------------------------------------------------------------------------
(* Screen.replace_all_tokens *)

\* Mutant: every cell becomes the default character in the new token.
replace_all_tokens_Blank(buf, token) ==
    [p \in DOMAIN buf |-> CharCache(" ", token)]

replace_all_tokens(buf, token) ==
    [p \in DOMAIN buf |-> CharCache(buf[p].char, token)]


-----------------------------------------------------------------------------
(* WritePosition.  The argument extended_height is None (<<>>) or <<n>>;    *)
(* the outcome is the object <<xpos, ypos, width, height, extended_height>> *)
(* or, when an assertion fails, no object (<<>>).                           *)

NoObject == <<>>

\* `extended_height or height`
Or(extended_height, height) ==
    IF extended_height = <<>> \/ extended_height = <<0>> THEN height
    ELSE extended_height[1]

\* WritePosition.__init__
WritePosition(xpos, ypos, w, height, extended_height) ==
    IF /\ height >= 0
       /\ (extended_height = <<>> \/ extended_height[1] >= 0)
       /\ w >= 0
       /\ xpos >= 0
       /\ ypos >= 0
    THEN <<xpos, ypos, w, height, Or(extended_height, height)>>
    ELSE NoObject

-----------------------------------------------------------------------------
(* Processors (layout/processors.py).  A token list is a sequence of        *)
(* <<token, text>>; positions count from 1 here and from 0 in the source.   *)

\* The number of characters of a token list.
RECURSIVE token_list_len(_)
token_list_len(toks) ==
    IF toks = <<>> THEN 0 ELSE Len(toks[1][2]) + token_list_len(Tail(toks))

\* `lambda i: i` and `lambda i: i + shift_position`
Lambda(shift) == [shift |-> shift]
Apply(f, i) == i + f.shift

\* Mutant of the literal below: the angle brackets too.
ClosersAndOpeners_WithAngle == <<"(", "{", "[", "<", ">", "]", "}", ")">>

\* A Python string literal as a text.
ClosersAndOpeners == <<"(", "{", "[", "]", "}", ")">>    \* '({[]})'
Openers == <<"(", "{", "[">>                             \* '({['

\* `text in string` on Python strings: text is a substring of string.
In(text, string) ==
    \E k \in 0..(Len(string) - Len(text)) : SubSeq(string, k + 1, k + Len(text)) = text

error_token == "Token.Error"

Last(stack) == stack[Len(stack)]
Pop(stack) == SubSeq(stack, 1, Len(stack) - 1)

\* Mutant of the test below: the case of the curly bracket is missing.
Matches_NoCurly(text, top) ==
    \/ text = <<")">> /\ top = <<"(">>
    \/ text = <<"]">> /\ top = <<"[">>

\* The `elif` of BracketsMismatchProcessor.run: match found.
Matches(text, top) ==
    \/ text = <<")">> /\ top = <<"(">>
    \/ text = <<"}">> /\ top = <<"{">>
    \/ text = <<"]">> /\ top = <<"[">>

\* Mutant of the loop body below: a closing bracket without a match takes
\* the top of the stack with it.
BracketStep_PopsOnMismatch(st, index) ==
    LET text == st.tokens[index][2]
        top  == IF st.stack # <<>> THEN st.tokens[Last(st.stack)][2] ELSE <<>>
    IN  IF In(text, ClosersAndOpeners)
        THEN IF In(text, Openers)
             THEN [st EXCEPT !.stack = Append(@, index)]
             ELSE IF Matches(text, top)
             THEN [st EXCEPT !.stack = Pop(@)]
             ELSE [st EXCEPT !.tokens[index] = <<error_token, text>>,
                             !.stack = Pop(@)]
        ELSE st

\* The body of `for index, (token, text) in enumerate(tokens)`.
BracketStep(st, index) ==
    LET text == st.tokens[index][2]
        top  == IF st.stack # <<>> THEN st.tokens[Last(st.stack)][2] ELSE <<>>
    IN  IF In(text, ClosersAndOpeners)
        THEN IF In(text, Openers)
             THEN [st EXCEPT !.stack = Append(@, index)]
             ELSE IF Matches(text, top)
             THEN [st EXCEPT !.stack = Pop(@)]
             ELSE [st EXCEPT !.tokens[index] = <<error_token, text>>]
        ELSE st

\* The loop state after the first n tokens.
RECURSIVE BracketScan(_, _)
BracketScan(toks, n) ==
    IF n = 0 THEN [tokens |-> toks, stack |-> <<>>]
    ELSE BracketStep(BracketScan(toks, n - 1), n)

\* Mutant of the loop below: the brackets left on the stack keep their tags.
HighlightUnclosed_Forgotten(st) == st.tokens

\* `for index in stack: tokens[index] = (Token.Error, tokens[index][1])`
HighlightUnclosed(st) ==
    [i \in 1..Len(st.tokens) |->
        IF \E k \in 1..Len(st.stack) : st.stack[k] = i
        THEN <<"Token.Error", st.tokens[i][2]>>
        ELSE st.tokens[i]]

\* BracketsMismatchProcessor.run: the list `tokens` after the run; the run
\* returns that same list and `lambda i: i`.
BracketsMismatchRun(toks) == HighlightUnclosed(BracketScan(toks, Len(toks)))

\* Mutant of the list below: the mask once per fragment.
PasswordRun_OneMaskPerFragment(toks, char) ==
    [i \in 1..Len(toks) |-> <<toks[i][1], <<char>>>>]

\* PasswordProcessor.run: [(token, self.char * len(text)) for token, text in tokens]
PasswordRun(toks, char) ==
    [i \in 1..Len(toks) |-> <<toks[i][1], [j \in 1..Len(toks[i][2]) |-> char]>>]

-----------------------------------------------------------------------------
(* The Buffer and its Document as the processors read them: `b` is a        *)
(* record of text, cursor_position, isearch_state and selection_range;     *)
(* a text is a sequence of characters, offsets count from 0.                *)

\* buffer.isearch_state: None, or a state with an isearch_text
NoSearch == <<>>
ISearch(isearch_text) == <<isearch_text>>

\* document.selection_range(): None, or (from_, to)
NoSelection == <<>>
Selection(from_, to) == <<from_, to>>

\* document.current_char and document.char_before_cursor: '' off the text
current_char(b) ==
    IF b.cursor_position < Len(b.text) THEN <<b.text[b.cursor_position + 1]>> ELSE <<>>

char_before_cursor(b) ==
    IF b.cursor_position > 0 THEN <<b.text[b.cursor_position]>> ELSE <<>>

\* document.find_all(sub): the offsets at which sub occurs in the text
find_all(b, sub) ==
    {k \in 0..(Len(b.text) - Len(sub)) : SubSeq(b.text, k + 1, k + Len(sub)) = sub}

BracketPairs == {<<"(", ")">>, <<"[", "]">>, <<"{", "}">>, <<"<", ">">>}

\* Opening minus closing brackets of one pair among the characters at the
\* offsets from..to.
RECURSIVE Depth(_, _, _, _)
Depth(string, pair, from, to) ==
    IF from > to THEN 0
    ELSE (IF string[to + 1] = pair[1] THEN 1
          ELSE IF string[to + 1] = pair[2] THEN -1 ELSE 0)
         + Depth(string, pair, from, to - 1)

\* document.matching_bracket_position: the offset, relative to the cursor,
\* of the bracket that matches the one at the cursor, 0 without a match.
matching_bracket_position(b) ==
    LET c == b.cursor_position
        ch == IF c < Len(b.text) THEN b.text[c + 1] ELSE ""
        right(pair) == {k \in (c + 1)..(Len(b.text) - 1) :
                          /\ Depth(b.text, pair, c, k) = 0
                          /\ \A j \in c..(k - 1) : Depth(b.text, pair, c, j) > 0}
        left(pair) == {k \in 0..(c - 1) :
                          /\ Depth(b.text, pair, k, c) = 0
                          /\ \A j \in (k + 1)..c : Depth(b.text, pair, j, c) < 0}
    IN  IF \E pair \in BracketPairs : ch = pair[1] /\ right(pair) # {}
        THEN (CHOOSE k \in UNION {right(pair) : pair \in {q \in BracketPairs : ch = q[1]}} : TRUE) - c
        ELSE IF \E pair \in BracketPairs : ch = pair[2] /\ left(pair) # {}
        THEN (CHOOSE k \in UNION {left(pair) : pair \in {q \in BracketPairs : ch = q[2]}} : TRUE) - c
        ELSE 0

\* tokens[pos] = (token, tokens[pos][1]) for every offset pos of a set
Retag(toks, offsets, token) ==
    [i \in 1..Len(toks) |-> IF (i - 1) \in offsets THEN <<token, toks[i][2]>> ELSE toks[i]]

\* `if index == buffer.cursor_position`
IsCurrentMatch(index, sub, cursor) == index = cursor

\* The loop of HighlightSearchProcessor.run over the matches at the offsets
\* below n, in increasing order.
RECURSIVE HighlightMatches(_, _, _, _)
HighlightMatches(toks, b, sub, n) ==
    IF n = 0 THEN toks
    ELSE LET before == HighlightMatches(toks, b, sub, n - 1)
             index == n - 1
         IN  IF index \in find_all(b, sub)
             THEN Retag(before, index..(index + Len(sub) - 1),
                        IF IsCurrentMatch(index, sub, b.cursor_position)
                        THEN "Token.SearchMatch.Current" ELSE "Token.SearchMatch")
             ELSE before

\* HighlightSearchProcessor.run: the list `tokens` after the run
HighlightSearchRun(toks, b) ==
    IF b.isearch_state # NoSearch
    THEN HighlightMatches(toks, b, b.isearch_state[1], Len(b.text) + 1)
    ELSE toks

\* HighlightSelectionProcessor.run: the list `tokens` after the run
HighlightSelectionRun(toks, b) ==
    IF b.selection_range # NoSelection
    THEN Retag(toks, b.selection_range[1]..(b.selection_range[2] - 1), "Token.SelectedText")
    ELSE toks

ClosingBraces == <<"]", ")", "}", ">">>                          \* '])}>'
DefaultChars == <<"[", "]", "(", ")", "{", "}", "<", ">">>       \* '[](){}<>'

\* apply_for_document(document) of HighlightMatchingBracketProcessor.run
apply_for_document(toks, document) ==
    LET pos == matching_bracket_position(document)
    IN  IF In(current_char(document), DefaultChars) /\ pos # 0
        THEN [tokens |-> Retag(toks, {document.cursor_position, document.cursor_position + pos},
                               "Token.MatchingBracket"),
              applied |-> TRUE]
        ELSE [tokens |-> toks, applied |-> FALSE]

\* HighlightMatchingBracketProcessor._has_to_be_applied
has_to_be_applied(cli) == ~cli.is_returning /\ cli.has_focus

\* HighlightMatchingBracketProcessor.run: the list `tokens` after the run
HighlightMatchingBracketRun(toks, cli, b) ==
    IF has_to_be_applied(cli)
    THEN LET first == apply_for_document(toks, b)
         IN  IF ~first.applied /\ b.cursor_position > 0
                /\ In(char_before_cursor(b), ClosingBraces)
             THEN apply_for_document(first.tokens,
                                     [b EXCEPT !.cursor_position = @ - 1]).tokens
             ELSE first.tokens
    ELSE toks

\* Mutant of the run below: the remap forgets the shift.
BeforeInputRun_NoShift(toks, tokens_before) ==
    [tokens |-> toks, result |-> tokens_before \o toks, remap |-> Lambda(0)]

\* BeforeInput.run: tokens_before + tokens, lambda i: i + shift_position
BeforeInputRun(toks, tokens_before) ==
    LET shift_position == token_list_len(tokens_before)
    IN  [tokens |-> toks, result |-> tokens_before \o toks,
         remap |-> Lambda(shift_position)]

\* Mutant of the run below: the tokens go before the input.
AfterInputRun_Before(toks, tokens_after) ==
    [tokens |-> toks, result |-> tokens_after \o toks, remap |-> Lambda(0)]

\* AfterInput.run: tokens + self.get_tokens(cli), lambda i: i
AfterInputRun(toks, tokens_after) ==
    [tokens |-> toks, result |-> toks \o tokens_after, remap |-> Lambda(0)]

-----------------------------------------------------------------------------
(* Processor objects.  `filters` are the values, at the time of the call,   *)
(* of the filters of the ConditionalProcessors wrapped around the           *)
(* processor, the outermost first.                                          *)

Processor(cls, char, get_tokens, filters) ==
    [cls |-> cls, char |-> char, get_tokens |-> get_tokens, filters |-> filters]

BracketsMismatchProcessor == Processor("BracketsMismatchProcessor", "", <<>>, <<>>)
HighlightSearchProcessor == Processor("HighlightSearchProcessor", "", <<>>, <<>>)
HighlightSelectionProcessor == Processor("HighlightSelectionProcessor", "", <<>>, <<>>)
HighlightMatchingBracketProcessor ==
    Processor("HighlightMatchingBracketProcessor", "", <<>>, <<>>)
PasswordProcessor(char) == Processor("PasswordProcessor", char, <<>>, <<>>)
BeforeInput(get_tokens) == Processor("BeforeInput", "", get_tokens, <<>>)
AfterInput(get_tokens) == Processor("AfterInput", "", get_tokens, <<>>)

\* ConditionalProcessor(processor, filter), with the value filter(cli) has.
ConditionalProcessor(processor, filter) ==
    [processor EXCEPT !.filters = <<filter>> \o @]

\* self.processor of a ConditionalProcessor
Wrapped(p) == [p EXCEPT !.filters = Tail(@)]

\* The class of the object itself.
ClassOf(p) == IF p.filters # <<>> THEN "ConditionalProcessor" ELSE p.cls

\* The run method of the processors that are not ConditionalProcessors: the
\* list `tokens` after the call, the list returned and the remap returned.
BaseRun(p, cli, b, toks) ==
    CASE p.cls = "BracketsMismatchProcessor" ->
            LET after == BracketsMismatchRun(toks)
            IN  [tokens |-> after, result |-> after, remap |-> Lambda(0)]
      [] p.cls = "PasswordProcessor" ->
            [tokens |-> toks, result |-> PasswordRun(toks, p.char),
             remap |-> Lambda(0)]
      [] p.cls = "BeforeInput" -> BeforeInputRun(toks, p.get_tokens)
      [] p.cls = "AfterInput" -> AfterInputRun(toks, p.get_tokens)
      [] p.cls = "HighlightSearchProcessor" ->
            LET after == HighlightSearchRun(toks, b)
            IN  [tokens |-> after, result |-> after, remap |-> Lambda(0)]
      [] p.cls = "HighlightSelectionProcessor" ->
            LET after == HighlightSelectionRun(toks, b)
            IN  [tokens |-> after, result |-> after, remap |-> Lambda(0)]
      [] p.cls = "HighlightMatchingBracketProcessor" ->
            LET after == HighlightMatchingBracketRun(toks, cli, b)
            IN  [tokens |-> after, result |-> after, remap |-> Lambda(0)]

\* Mutant of the run below: the wrapped processor runs whatever the filter
\* says.
ConditionalRun_IgnoresFilter(filter, inner, toks) ==
    [inner EXCEPT !.invoked = <<"ConditionalProcessor">> \o @]

\* ConditionalProcessor.run, `inner` being what self.processor.run would
\* return.
ConditionalRun(filter, inner, toks) ==
    IF filter
    THEN [inner EXCEPT !.invoked = <<"ConditionalProcessor">> \o @]
    ELSE [tokens |-> toks, result |-> toks, remap |-> Lambda(0),
          invoked |-> <<"ConditionalProcessor">>]

\* p.run(cli, b, toks), with the run methods it called.
RECURSIVE RunWith(_, _, _, _)
RunWith(p, cli, b, toks) ==
    IF p.filters # <<>>
    THEN ConditionalRun(Head(p.filters), RunWith(Wrapped(p), cli, b, toks), toks)
    ELSE LET r == BaseRun(p, cli, b, toks)
         IN  [tokens |-> r.tokens, result |-> r.result, remap |-> r.remap,
              invoked |-> <<p.cls>>]

-----------------------------------------------------------------------------
(* Python values, written so that two of them are equal here exactly when  *)
(* they are equal (==) in Python: True is 1 and False is 0.                 *)

PyNone == <<"None">>
PyBool(b) == IF b THEN <<"1">> ELSE <<"0">>
PyInt(n) == <<ToString(n)>>
PyStr(string) == <<"'">> \o string \o <<"'">>
PyTuple1(a) == <<"(">> \o a \o <<",", ")">>
PyTuple2(a, c) == <<"(">> \o a \o <<",">> \o c \o <<")">>
PyTuple3(a, c, d) == <<"(">> \o a \o <<",">> \o c \o <<",">> \o d \o <<")">>

\* HighlightSearchProcessor.invalidation_hash; `x and y` is x when x is
\* None or '', else y.
HighlightSearchHash(b) ==
    IF b.isearch_state = NoSearch THEN PyTuple3(PyNone, PyNone, PyNone)
    ELSE IF b.isearch_state[1] = <<>>
    THEN PyTuple3(<<"isearch_state">>, PyStr(<<>>), PyStr(<<>>))
    ELSE PyTuple3(<<"isearch_state">>, PyStr(b.isearch_state[1]), PyInt(b.cursor_position))

\* HighlightSelectionProcessor.invalidation_hash
HighlightSelectionHash(b) ==
    IF b.selection_range = NoSelection THEN PyTuple1(PyNone)
    ELSE PyTuple1(PyTuple2(PyInt(b.selection_range[1]), PyInt(b.selection_range[2])))

\* HighlightMatchingBracketProcessor.invalidation_hash
HighlightMatchingBracketHash(cli, b) ==
    LET on_brace == In(current_char(b), DefaultChars)
        after_brace == In(char_before_cursor(b), DefaultChars)
        applied == has_to_be_applied(cli)
    IN  IF applied /\ on_brace
        THEN PyTuple2(PyBool(TRUE), PyInt(b.cursor_position))
        ELSE IF applied /\ after_brace /\ In(char_before_cursor(b), ClosingBraces)
        THEN PyTuple2(PyBool(TRUE), PyInt(b.cursor_position - 1))
        ELSE PyBool(FALSE)

\* invalidation_hash of the processors that are not ConditionalProcessors;
\* the others keep Processor.invalidation_hash.
BaseHash(p, cli, b) ==
    CASE p.cls = "HighlightSearchProcessor" -> HighlightSearchHash(b)
      [] p.cls = "HighlightSelectionProcessor" -> HighlightSelectionHash(b)
      [] p.cls = "HighlightMatchingBracketProcessor" -> HighlightMatchingBracketHash(cli, b)
      [] OTHER -> PyNone

\* Mutant of the hash below: the hash of the wrapped processor as it is.
ConditionalHash_Untagged(filter, inner) ==
    IF filter THEN inner ELSE PyBool(FALSE)

\* ConditionalProcessor.invalidation_hash, `inner` being what
\* self.processor.invalidation_hash would return.
ConditionalHash(filter, inner) ==
    IF filter THEN PyTuple2(PyBool(TRUE), inner) ELSE PyBool(FALSE)

\* p.invalidation_hash(cli, b)
RECURSIVE invalidation_hash(_, _, _)
invalidation_hash(p, cli, b) ==
    IF p.filters # <<>>
    THEN ConditionalHash(Head(p.filters), invalidation_hash(Wrapped(p), cli, b))
    ELSE BaseHash(p, cli, b)

-----------------------------------------------------------------------------
(* Inputs. *)

\* The fragments streams are built from: two plain characters, a wide one,
\* a newline, a control character and a zero width one.
DataFragments ==
    { <<Token, <<"a">>>>, <<"Token.Keyword", <<"b">>>>, <<Token, <<WIDE>>>>,
      <<Token, <<NL>>>>, <<"Token.Keyword", <<BEL>>>>, <<"Token.Keyword", <<CMB>>>> }

\* Streams of one-character fragments, and some with longer and empty texts.
Streams ==
    SeqsUpTo(DataFragments, MaxLen)
    \cup { << <<Token, <<"a", WIDE>>>>, <<"Token.Keyword", <<>>>>, <<Token, <<NL, "b">>>> >>,
           << <<"Token.Keyword", <<"a", "b", "a", "b">>>> >> }

Widths == 0..MaxWidth

ReplaceTokens == {Token, "Token.Aborted"}

\* Token lists for the processors: one character per token, as a lexer
\* gives them, and some with longer and empty texts.
ProcFragments ==
    {<<"Token.Punctuation", <<c>>>> : c \in {"(", ")", "[", "]", "{", "}"}}
    \cup {<<"Token.Name", <<"a">>>>}

Chars(string) == [i \in 1..Len(string) |-> <<string[i]>>]

\* "(a[b]c)" and "([)]" with one character per token.
Lexed(string) ==
    [i \in 1..Len(string) |->
        IF In(string[i], ClosersAndOpeners)
        THEN <<"Token.Punctuation", string[i]>>
        ELSE <<"Token.Name", string[i]>>]

\* "a<b", "<a>" and other texts with '<' and '>'.
AngleTexts ==
    {<<">">>, <<"<">>, <<"a", "<", "b">>, <<"<", "a", ">">>, <<"<", ")">>,
     <<"(", ">">>, <<"(", "<", ")", ">">>}

ProcStreams ==
    SeqsUpTo(ProcFragments, MaxTokens)
    \cup { Lexed(Chars(<<"(", "a", "[", "b", "]", "c", ")">>)),
           Lexed(Chars(<<"(", "[", "{", "}", "]", ")">>)),
           Lexed(Chars(<<"(", "[", "a", ")", "]">>)),
           << <<"Token.Name", <<"a", "b">>>>, <<"Token", <<>>>>,
              <<"Token.Punctuation", <<"[", "]">>>> >> }
    \cup {Lexed(Chars(string)) : string \in AngleTexts}

Masks == {"*", "#"}

\* Token lists, prefixes and processors of the chains of stages.
PipeStreams ==
    SeqsUpTo({<<"Token.Punctuation", <<"(">>>>, <<"Token.Punctuation", <<")">>>>,
              <<"Token.Name", <<"a">>>>}, PipeLen)

Prompt1 == << <<"Token.Prompt", <<"$">>>> >>
Prompt2 == << <<"Token.Prompt", <<">">>>>, <<"Token.Prompt.Space", <<" ">>>> >>
Toolbar == << <<"Token.Toolbar", <<"!">>>> >>

PipeProcessors ==
    LET base == {BeforeInput(Prompt1), BeforeInput(Prompt2), AfterInput(Toolbar),
                 PasswordProcessor("*"), BracketsMismatchProcessor}
        once == {ConditionalProcessor(p, f) :
                    p \in {BeforeInput(Prompt2), PasswordProcessor("*")},
                    f \in BOOLEAN}
        twice == {ConditionalProcessor(ConditionalProcessor(PasswordProcessor("*"), f), g) :
                    f \in BOOLEAN, g \in BOOLEAN}
    IN  base \cup once \cup twice

\* Texts, searches and processors of the highlighting stages.
HLTexts ==
    SeqsUpTo({"(", ")", "a"}, HLLen)
    \cup {<<"(", ")", ")", "a">>, <<"a", "(", ")", "a">>}

HLSearches == {NoSearch, ISearch(<<>>), ISearch(<<"a">>), ISearch(<<"(", ")">>)}

HLSelections(string) ==
    {NoSelection} \cup (IF string = <<>> THEN {} ELSE {Selection(0, Len(string))})

HLProcessors ==
    {HighlightSearchProcessor, HighlightSelectionProcessor,
     HighlightMatchingBracketProcessor}

\* Texts, searches and processors of the stages whose hash is taken.
HashTexts == SeqsUpTo({")", "a"}, HLLen)

HashSearches == {NoSearch, ISearch(<<"a">>)}

HashProcessors ==
    LET base == {HighlightSearchProcessor, HighlightSelectionProcessor,
                 HighlightMatchingBracketProcessor, PasswordProcessor("*"),
                 BracketsMismatchProcessor, BeforeInput(Prompt1), AfterInput(Toolbar)}
        once == {ConditionalProcessor(p, f) : p \in base, f \in BOOLEAN}
        twice == {ConditionalProcessor(ConditionalProcessor(p, f), g) :
                    p \in {HighlightMatchingBracketProcessor, PasswordProcessor("*")},
                    f \in BOOLEAN, g \in BOOLEAN}
    IN  base \cup once \cup twice

\* The ConditionalProcessors among them whose filter is true.
ActiveConditionals == {q \in HashProcessors : q.filters # <<>> /\ Head(q.filters)}

\* Texts, searches and processors of the chains that insert and retag.
RemapTexts ==
    {<<>>, <<"a">>, <<"(", ")">>, <<"a", "(">>, <<"(", "a", ")">>, <<")", "a", "a">>}

RemapSearches == {NoSearch, ISearch(<<"a">>)}

RemapProcessors ==
    LET base == {BeforeInput(Prompt1), BeforeInput(Prompt2), AfterInput(Toolbar),
                 HighlightSearchProcessor, HighlightSelectionProcessor,
                 HighlightMatchingBracketProcessor, BracketsMismatchProcessor}
        once == {ConditionalProcessor(p, f) :
                    p \in {BeforeInput(Prompt2), AfterInput(Toolbar),
                           HighlightSearchProcessor},
                    f \in BOOLEAN}
    IN  base \cup once

SeqStreams == SeqsUpTo({<<Token, <<c>>>> : c \in {"a", WIDE, NL}}, SeqLen)
SeqWidths == {1, 2}
SeqMargins == {MarginNone, "numbers"}

-----------------------------------------------------------------------------
(* The Screen as a state machine. *)

\* No processor has run.
NoProcessor(toks) ==
    /\ input = toks
    /\ tokens = toks
    /\ result = toks
    /\ remap = Lambda(0)
    /\ proc = "None"
    /\ mask = "None"
    /\ stages = 0
    /\ chain = <<>>
    /\ composed = [i \in 0..token_list_len(toks) |-> i]
    /\ invoked = <<>>
    /\ hash = PyNone

\* A buffer without text, not searched; no WritePosition made.
NoBuffer ==
    /\ document_text = <<>>
    /\ buffer_cursor_position = 0
    /\ isearch_state = NoSearch
    /\ selection_range = NoSelection
    /\ is_returning = FALSE
    /\ has_focus = TRUE
    /\ write_position = <<>>

\* Screen.__init__(width)
NewScreen ==
    /\ buffer = EmptyMap
    /\ width = MaxWidth
    /\ cursor_position = [y |-> 0, x |-> 0]
    /\ menu_position = "None"
    /\ current_height = 1
    /\ screen_line_to_input_line = EmptyMap
    /\ op = "new"
    /\ calls = 0
    /\ data = <<>>
    /\ target_width = 0
    /\ margin = MarginNone
    /\ indexes_to_pos = EmptyMap
    /\ writes = <<>>
    /\ line_feeds = <<>>
    /\ consumed = <<>>
    /\ wraps = 0

Init == NewScreen /\ NoProcessor(<<>>) /\ NoBuffer

\* screen.write_data(d, w, m)
WriteDataCall(d, w, m) ==
    \E end \in {write_data(buffer, screen_line_to_input_line, d, w, m)} :
        /\ buffer' = end.buffer
        /\ screen_line_to_input_line' = end.screen_line_to_input_line
        /\ current_height' = NewHeight(current_height, end.y)
        /\ indexes_to_pos' = end.indexes_to_pos
        /\ writes' = end.writes
        /\ line_feeds' = end.line_feeds
        /\ consumed' = end.consumed
        /\ wraps' = end.wraps
        /\ op' = "write_data"
        /\ calls' = calls + 1
        /\ data' = d
        /\ target_width' = w
        /\ margin' = m
        /\ UNCHANGED <<width, cursor_position, menu_position>>
        /\ UNCHANGED <<proc_vars, cli_vars, write_position>>

\* write_data on the new Screen of a render pass.
WriteData ==
    /\ op = "new"
    /\ \E d \in Streams, w \in Widths, m \in Margins : WriteDataCall(d, w, m)

\* screen.replace_all_tokens(token)
ReplaceAllTokens ==
    /\ \E token \in ReplaceTokens : buffer' = replace_all_tokens(buffer, token)
    /\ op' = "replace_all_tokens"
    /\ UNCHANGED <<width, cursor_position, menu_position, current_height,
                   screen_line_to_input_line, calls, data, target_width, margin,
                   indexes_to_pos, writes, line_feeds, consumed, wraps>>
    /\ UNCHANGED <<proc_vars, cli_vars, write_position>>

Next == WriteData \/ ReplaceAllTokens

Spec == Init /\ [][Next]_vars

\* write_data called again and again on the same Screen.
WriteDataSeq ==
    /\ calls < MaxCalls
    /\ \E d \in SeqStreams, w \in SeqWidths, m \in SeqMargins : WriteDataCall(d, w, m)

NextSeq == WriteDataSeq \/ ReplaceAllTokens

SpecSeq == Init /\ [][NextSeq]_vars

\* Calls of WritePosition(xpos, ypos, width, height[, extended_height]).
Coords == (-1)..MaxCoord

NewWritePosition ==
    /\ \E xpos \in Coords, ypos \in Coords, w \in Coords, height \in Coords,
          extended_height \in {<<>>} \cup {<<n>> : n \in Coords} :
          write_position' = << <<xpos, ypos, w, height, extended_height>>,
                               WritePosition(xpos, ypos, w, height, extended_height) >>
    /\ UNCHANGED <<screen_vars, proc_vars, cli_vars>>

NextWP == NewWritePosition

SpecWP == Init /\ [][NextWP]_vars

-----------------------------------------------------------------------------
(* The processors as a state machine: a token list is run through a chain  *)
(* of processors, each given what the one before it returned.              *)

InitProc == NewScreen /\ NoBuffer /\ \E toks \in ProcStreams : NoProcessor(toks)

\* The CommandLineInterface and the Buffer of the current state.
TheCli == [is_returning |-> is_returning, has_focus |-> has_focus]
TheBuffer ==
    [text |-> document_text, cursor_position |-> buffer_cursor_position,
     isearch_state |-> isearch_state, selection_range |-> selection_range]

Run(p, toks) == RunWith(p, TheCli, TheBuffer, toks)

\* p.invalidation_hash(cli, buffer) and p.run(cli, buffer, result), as the
\* renderer calls them for one stage of the chain.
RunProcessor(p) ==
    \E r \in {Run(p, result)} :
        /\ tokens' = r.tokens
        /\ result' = r.result
        /\ remap' = r.remap
        /\ invoked' = r.invoked
        /\ hash' = invalidation_hash(p, TheCli, TheBuffer)
        /\ proc' = ClassOf(p)
        /\ mask' = IF ClassOf(p) = "PasswordProcessor" THEN p.char ELSE mask
        /\ stages' = stages + 1
        /\ chain' = Append(chain, p)
        /\ composed' = [i \in DOMAIN composed |-> Apply(r.remap, composed[i])]
        /\ UNCHANGED input
        /\ UNCHANGED <<screen_vars, cli_vars, write_position>>

\* BracketsMismatchProcessor().run(cli, buffer, result)
RunBracketsMismatch ==
    /\ stages < MaxStages
    /\ RunProcessor(BracketsMismatchProcessor)

\* PasswordProcessor(char).run(cli, buffer, result)
RunPassword ==
    /\ stages < MaxStages
    /\ \E char \in Masks : RunProcessor(PasswordProcessor(char))

NextProc == RunBracketsMismatch \/ RunPassword

SpecProc == InitProc /\ [][NextProc]_vars

\* Chains of stages: prompts before and after the input, conditional stages.
InitPipe == NewScreen /\ NoBuffer /\ \E toks \in PipeStreams : NoProcessor(toks)

RunStage ==
    /\ stages < MaxStages
    /\ \E p \in PipeProcessors : RunProcessor(p)

NextPipe == RunStage

SpecPipe == InitPipe /\ [][NextPipe]_vars

\* The highlighting stages: the lexed text of a buffer, with its cursor,
\* search state and selection, given to one processor.
BufferOf(texts, searches) ==
    /\ \E string \in texts :
          /\ document_text = string
          /\ NoProcessor(Lexed(Chars(string)))
          /\ buffer_cursor_position \in 0..Len(string)
          /\ selection_range \in HLSelections(string)
    /\ isearch_state \in searches
    /\ is_returning \in BOOLEAN
    /\ has_focus \in BOOLEAN
    /\ write_position = <<>>

InitHL == NewScreen /\ BufferOf(HLTexts, HLSearches)

RunHighlight ==
    /\ stages = 0
    /\ \E p \in HLProcessors : RunProcessor(p)

NextHL == RunHighlight

SpecHL == InitHL /\ [][NextHL]_vars

\* Chains of inserting and retagging stages on the lexed text of a focused
\* buffer.
InitRemap ==
    /\ NewScreen
    /\ \E string \in RemapTexts :
          /\ document_text = string
          /\ NoProcessor(Lexed(Chars(string)))
          /\ buffer_cursor_position \in 0..Len(string)
          /\ selection_range \in HLSelections(string)
    /\ isearch_state \in RemapSearches
    /\ is_returning = FALSE
    /\ has_focus = TRUE
    /\ write_position = <<>>

RunRemapStage ==
    /\ stages < MaxStages
    /\ \E p \in RemapProcessors : RunProcessor(p)

NextRemap == RunRemapStage

SpecRemap == InitRemap /\ [][NextRemap]_vars

\* The same with every kind of processor, ConditionalProcessors included.
InitHash == NewScreen /\ BufferOf(HashTexts, HashSearches)

RunHashed ==
    /\ stages = 0
    /\ \E p \in HashProcessors : RunProcessor(p)

NextHash == RunHashed

SpecHash == InitHash /\ [][NextHash]_vars

-----------------------------------------------------------------------------
(* Vocabulary of the properties of write_data. *)

\* The stream of the last write_data, one <<token, char>> per offset.
Flat == Flatten(data)
NChars == Len(Flat)
CharAt(i) == Flat[i + 1][2]         \* offsets count from 0
TokenAt(i) == Flat[i + 1][1]
WidthOf(char) == get_cwidth(display_mappings(char))

\* write_data has just been called on a new Screen.
FreshWrite == op = "write_data" /\ calls = 1

\* Every character of the stream is one column wide (and so no newline).
PlainStream == \A i \in 0..(NChars - 1) : CharAt(i) # NL /\ WidthOf(CharAt(i)) = 1

RECURSIVE StreamWidth(_)
StreamWidth(flat) ==
    IF flat = <<>> THEN 0 ELSE WidthOf(flat[1][2]) + StreamWidth(Tail(flat))

\* The columns the margin of a row takes.
MarginWidth(m, number) ==
    IF m = MarginNone THEN 0 ELSE StreamWidth(Flatten(margin_call(m, number)))

CeilDiv(n, w) == (n + w - 1) \div w

-----------------------------------------------------------------------------
(* Properties of Screen.write_data and Screen.replace_all_tokens. *)

\* The cell the index map points at for offset i.
MappedCell(i) == buffer[<<indexes_to_pos[i][2], indexes_to_pos[i][1]>>]
IsMapped(i) == <<indexes_to_pos[i][2], indexes_to_pos[i][1]>> \in DOMAIN buffer

\* C1 (as claimed): after write_data of any stream of N characters (of width
\* 0, 1 or 2, control characters and newlines included) to a new Screen, the
\* returned map has exactly the keys 0..N-1 and, for every offset whose
\* character is no newline, the cell at the mapped position has the glyph of
\* that character.
C1_IndexMapFidelity ==
    FreshWrite =>
        /\ DOMAIN indexes_to_pos = 0..(NChars - 1)
        /\ \A i \in 0..(NChars - 1) :
              CharAt(i) # NL =>
                  IsMapped(i) /\ MappedCell(i).char = display_mappings(CharAt(i))

\* C2: N >= 1 plain characters written to a new Screen with no margin and a
\* target width W >= 1 leave current_height = ceil(N/W), and offset i is
\* mapped to (x, y) = (i mod W, i div W).
C2_WrapRowCount ==
    (FreshWrite /\ margin = MarginNone /\ NChars >= 1 /\ PlainStream
                /\ target_width >= 1) =>
        /\ current_height = CeilDiv(NChars, target_width)
        /\ \A i \in 0..(NChars - 1) :
              indexes_to_pos[i] = <<i % target_width, i \div target_width>>

\* C2's case: a stream that wraps more than once, and one that ends exactly
\* at the end of a row.
C2_Witness ==
    /\ FreshWrite /\ margin = MarginNone /\ PlainStream
    /\ \/ NChars = 3 /\ target_width = 1 /\ current_height = 3
       \/ NChars = 4 /\ target_width = 2 /\ current_height = 2

\* The margins leave room: every line margin fits in W columns and the
\* continuation margin leaves at least one column free.
MarginsFit ==
    /\ MarginWidth(margin, NoNumber) < target_width
    /\ \A n \in 0..NChars : MarginWidth(margin, Number(n)) <= target_width

\* C3 (as claimed): after write_data of a stream of plain characters, for
\* every target width W >= 0 and every margin function, no cell has been
\* written at a column >= W.
C3_NoRowExceedsWidth ==
    (FreshWrite /\ PlainStream) =>
        \A k \in 1..Len(writes) : writes[k].x < target_width

\* C3 (amended): the same for every target width W >= 1 and every margin
\* function (none included) whose line margins are at most W columns wide
\* and whose continuation margin is narrower than W.
C3_NoRowExceedsWidth_Amended ==
    (FreshWrite /\ PlainStream /\ target_width >= 1 /\ MarginsFit) =>
        \A k \in 1..Len(writes) : writes[k].x < target_width

\* C3's case: a stream that wraps twice behind a margin.
C3_Witness ==
    /\ FreshWrite /\ PlainStream /\ target_width >= 1 /\ MarginsFit
    /\ margin # MarginNone /\ wraps = 2
    /\ \E k \in 1..Len(writes) : writes[k].x = target_width - 1

\* The loop state of the last write_data (on a new Screen) before it handles
\* offset i, and the column the character of offset i would start at there.
PreState(i) ==
    WriteLoop(WriteStart(EmptyMap, EmptyMap), SubSeq(Flat, 1, i), 1, target_width, margin)
WouldStart(i) ==
    IF PreState(i).requires_line_feed
    THEN MarginWidth(margin, Number(PreState(i).line_number))
    ELSE PreState(i).x

IsWide(i) == CharAt(i) # NL /\ WidthOf(CharAt(i)) = 2

\* A double width character that does not fit is put at the start of the
\* next row, after the continuation margin; its cell and the second cell are
\* in the same row.
WideWrapped(i) ==
    LET x == indexes_to_pos[i][1]
        y == indexes_to_pos[i][2]
    IN  /\ WouldStart(i) + 2 > target_width =>
              /\ x = MarginWidth(margin, NoNumber)
              /\ y = PreState(i).y + 1
        /\ <<y, x>> \in DOMAIN buffer /\ <<y, x + 1>> \in DOMAIN buffer
        /\ buffer[<<y, x>>] = CharCache(CharAt(i), TokenAt(i))
        /\ buffer[<<y, x + 1>>] = SecondCell

\* "ab" + wide character with W = 2 puts the wide character at (x=0, y=1).
WideExample ==
    (margin = MarginNone /\ target_width = 2
       /\ [i \in 1..NChars |-> Flat[i][2]] = <<"a", "b", WIDE>>) =>
        indexes_to_pos[2] = <<0, 1>>

\* C4 (as claimed): a width-2 character that would start at a column x with
\* x + 2 > W is placed at the start of the next row (after the continuation
\* margin), so its cell and its second cell always lie in the same row and
\* both at columns < W.
C4_WideNeverSplit ==
    FreshWrite =>
        /\ \A i \in 0..(NChars - 1) :
              IsWide(i) => WideWrapped(i) /\ indexes_to_pos[i][1] + 1 < target_width
        /\ WideExample

\* C4 (amended): the same, with both cells at columns < W whenever the
\* continuation margin leaves two columns free (its width + 2 <= W).
C4_WideNeverSplit_Amended ==
    FreshWrite =>
        /\ \A i \in 0..(NChars - 1) :
              IsWide(i) =>
                  /\ WideWrapped(i)
                  /\ MarginWidth(margin, NoNumber) + 2 <= target_width =>
                         indexes_to_pos[i][1] + 1 < target_width
        /\ WideExample

\* C4's case: a wide character that did not fit behind two plain ones and
\* was moved to the next row, behind a continuation margin.
C4_Witness ==
    /\ FreshWrite /\ NChars = 3 /\ IsWide(2) /\ ~IsWide(0) /\ ~IsWide(1)
    /\ margin = "numbers" /\ target_width = 3
    /\ WouldStart(2) = 3 /\ indexes_to_pos[2] = <<1, 1>>

\* C5: in every state reachable by write_data and replace_all_tokens calls,
\* current_height >= 1 and current_height >= (highest written row) + 1, and
\* current_height never decreases from one call to the next.
C5_HeightInvariant ==
    /\ [](/\ current_height >= 1
          /\ \A p \in DOMAIN buffer : current_height >= p[1] + 1)
    /\ [][current_height' >= current_height]_vars

\* C5's case: a second write_data that ends on a lower row than the first
\* one did; the height of the first stays.
C5_Witness ==
    /\ op = "write_data" /\ calls = 2 /\ current_height = 2
    /\ writes # <<>> /\ \A k \in 1..Len(writes) : writes[k].y = 0

\* C6 (as claimed): whenever write_data writes a cell of width 2 at (y, x),
\* for a character of the stream or of a margin, the cell it writes at
\* (y, x+1) is a placeholder of display width 0.
C6_WideSentinel ==
    op = "write_data" =>
        \A k \in 1..Len(writes) :
            (writes[k].cell.width = 2 /\ writes[k].cell # SecondCell) =>
                /\ k < Len(writes)
                /\ writes[k + 1].y = writes[k].y
                /\ writes[k + 1].x = writes[k].x + 1
                /\ writes[k + 1].cell.width = 0

\* C7: replace_all_tokens(tag) changes only style tags: afterwards every
\* written cell has the tag and its glyph and width of before, the written
\* positions are the same, width, cursor_position, menu_position,
\* current_height and screen_line_to_input_line are unchanged, and a second
\* call with the same tag changes nothing.
C7_ReplaceOnlyTokens ==
    [][op' = "replace_all_tokens" =>
        /\ DOMAIN buffer' = DOMAIN buffer
        /\ \E tag \in ReplaceTokens :
              /\ \A p \in DOMAIN buffer :
                    /\ buffer'[p].token = tag
                    /\ buffer'[p].char = buffer[p].char
                    /\ buffer'[p].width = buffer[p].width
              /\ replace_all_tokens(buffer', tag) = buffer'
        /\ UNCHANGED <<width, cursor_position, menu_position, current_height,
                       screen_line_to_input_line>>
    ]_vars

\* C7's case: a grid with a control character, a wide character and its
\* second cell, all retagged.
C7_Witness ==
    /\ op = "replace_all_tokens"
    /\ \E p, q, r \in DOMAIN buffer :
          /\ buffer[p].char = "^G" /\ buffer[q].char = WIDE /\ buffer[r].char = "^@"
    /\ \A p \in DOMAIN buffer : buffer[p].token = "Token.Aborted"

-----------------------------------------------------------------------------
(* Properties of the processors. *)

OneCharPerToken(toks) == \A i \in 1..Len(toks) : Len(toks[i][2]) = 1

\* The positions of a token list that carry the error token.
ErrorPositions(toks) == {i \in 1..Len(toks) : toks[i][1] = error_token}

\* The texts of a token list.
Texts(toks) == [i \in 1..Len(toks) |-> toks[i][2]]

IsCloser(text) == text \in {<<")">>, <<"]">>, <<"}">>}
IsBracket(text) == IsCloser(text) \/ text \in {<<"(">>, <<"[">>, <<"{">>}
OpenerOf(text) ==
    CASE text = <<")">> -> <<"(">>
      [] text = <<"]">> -> <<"[">>
      [] text = <<"}">> -> <<"{">>

\* Properly nested and balanced, by rewriting: the brackets of the stream,
\* with adjacent pairs (), [] and {} taken out until none is left.
RECURSIVE Reduce(_)
Reduce(s) ==
    LET pairs == {i \in 1..(Len(s) - 1) : IsCloser(s[i + 1]) /\ s[i] = OpenerOf(s[i + 1])}
    IN  IF pairs = {} THEN s
        ELSE LET i == CHOOSE k \in pairs : \A j \in pairs : k <= j
             IN  Reduce(SubSeq(s, 1, i - 1) \o SubSeq(s, i + 2, Len(s)))

Balanced(toks) == Reduce(SelectSeq(Texts(toks), IsBracket)) = <<>>

\* The bracket processor was the first to run, on one character per token.
FirstBracketRun ==
    proc = "BracketsMismatchProcessor" /\ stages = 1 /\ OneCharPerToken(input)

\* At token k the scan of `toks` meets a closing bracket while the stack is
\* not empty and its top is not the matching opener.
MeetsMismatch(toks, k) ==
    LET before == BracketScan(toks, k - 1)
    IN  /\ IsCloser(toks[k][2])
        /\ before.stack # <<>>
        /\ toks[before.stack[Len(before.stack)]][2] # OpenerOf(toks[k][2])

\* That step retags the closing bracket and nothing else, and the bracket
\* ends the run error-tagged.
OnlyCloserTagged(toks, k) ==
    LET before == BracketScan(toks, k - 1)
        after  == BracketScan(toks, k)
    IN  /\ after.tokens = [before.tokens EXCEPT ![k] = <<error_token, toks[k][2]>>]
        /\ after.stack = before.stack
        /\ result[k] = <<error_token, toks[k][2]>>

MismatchRetagsCloser ==
    \A k \in 1..Len(input) : MeetsMismatch(input, k) => OnlyCloserTagged(input, k)

IsStream(toks, string) == OneCharPerToken(toks) /\ Texts(toks) = Chars(string)

\* C8 (as claimed): a closing bracket met while the stack is non-empty and
\* its top is not the matching opener is the only token error-tagged as a
\* result; the stream "(a]" ends with exactly one error tag, at the `]`.
C8_MismatchedCloserOnly ==
    FirstBracketRun =>
        /\ MismatchRetagsCloser
        /\ IsStream(input, <<"(", "a", "]">>) => ErrorPositions(result) = {3}

\* C8 (amended): that step error-tags only the closing bracket and leaves
\* the stack as it is, so the opener under it stays unmatched; the stream
\* "(a]" ends with exactly two error tags, at the `(` and at the `]`.
C8_MismatchedCloser_Amended ==
    FirstBracketRun =>
        /\ MismatchRetagsCloser
        /\ IsStream(input, <<"(", "a", "]">>) => ErrorPositions(result) = {1, 3}

\* C8's case: the run of "(a]".
C8_Witness ==
    /\ FirstBracketRun /\ IsStream(input, <<"(", "a", "]">>)
    /\ MeetsMismatch(input, 3)
    /\ result[3][1] = error_token

\* C9: for a stream of one character per token whose brackets are properly
\* nested and balanced, BracketsMismatchProcessor.run returns a token list
\* equal to its input, so running it again changes nothing.
C9_BalancedUntouched ==
    [][(proc' = "BracketsMismatchProcessor" /\ OneCharPerToken(result) /\ Balanced(result)) =>
          /\ result' = result
          /\ tokens' = result
          /\ BracketsMismatchRun(result') = result'
    ]_vars

\* C9's case: the run of "(a[b]c)".
C9_Witness ==
    /\ FirstBracketRun /\ Balanced(input)
    /\ IsStream(input, <<"(", "a", "[", "b", "]", "c", ")">>)
    /\ result = input /\ ErrorPositions(result) = {}

\* C10: PasswordProcessor.run returns a stream with the same number of
\* fragments, each with its style tag and its length, every character the
\* mask character, together with the identity remap; the input stream is
\* not modified.
C10_PasswordMask ==
    [][proc' = "PasswordProcessor" =>
          /\ Len(result') = Len(result)
          /\ \A i \in 1..Len(result) :
                /\ result'[i][1] = result[i][1]
                /\ Len(result'[i][2]) = Len(result[i][2])
                /\ \A j \in 1..Len(result'[i][2]) : result'[i][2][j] = mask'
          /\ \A i \in 0..token_list_len(result) : Apply(remap', i) = i
          /\ tokens' = result
    ]_vars

\* C10's case: a stream with a text of two characters and an empty one,
\* masked.
C10_Witness ==
    /\ proc = "PasswordProcessor" /\ stages = 1 /\ mask = "#"
    /\ Len(input) = 3 /\ Len(input[1][2]) = 2 /\ Len(input[2][2]) = 0
    /\ result[1] = <<"Token.Name", <<"#", "#">>>>
    /\ tokens = input /\ result # input

-----------------------------------------------------------------------------
(* Properties of chains of stages. *)

\* The stage runs BeforeInput.run: it is a BeforeInput, and every
\* ConditionalProcessor around it has a true filter.
InsertsBefore(p) ==
    p.cls = "BeforeInput" /\ \A k \in 1..Len(p.filters) : p.filters[k]

\* K1 + ... + Kn of the BeforeInput stages of a chain.
RECURSIVE PrefixSum(_)
PrefixSum(stages_run) ==
    IF stages_run = <<>> THEN 0
    ELSE (IF InsertsBefore(Head(stages_run))
          THEN token_list_len(Head(stages_run).get_tokens) ELSE 0)
         + PrefixSum(Tail(stages_run))

\* C11: the remaps of a chain of stages, composed in the order the stages
\* ran, map every cursor offset i of the input to i + K1 + ... + Kn, the
\* Ks being the numbers of characters of the prefixes the BeforeInput
\* stages of the chain inserted; with one BeforeInput of K characters and
\* identity-remap stages that is i + K.
C11_PipelineComposition ==
    \A i \in 0..token_list_len(input) :
        /\ i \in DOMAIN composed
        /\ composed[i] = i + PrefixSum(chain)

\* C11's case: a prefix of one and a prefix of two characters inserted one
\* after the other before a non-empty input, and a prefix followed by an
\* identity-remap stage.
C11_Witness ==
    /\ stages = 2 /\ input # <<>>
    /\ \/ /\ chain[1] = BeforeInput(Prompt1) /\ chain[2] = BeforeInput(Prompt2)
          /\ composed[1] = 4
       \/ /\ chain[1] = BeforeInput(Prompt2) /\ chain[2] = PasswordProcessor("*")
          /\ composed[1] = 3

\* The processor of the last stage.
LastStage == chain[Len(chain)]

\* C12: a ConditionalProcessor whose filter is false returns the list it
\* was given, unchanged, with the identity remap, and calls no run method
\* of the processor it wraps; one whose filter is true returns what the
\* run method of the wrapped processor returns.
C12_ConditionalTransparency ==
    [][proc' = "ConditionalProcessor" =>
          LET p == chain'[Len(chain')]
          IN  IF Head(p.filters)
              THEN /\ result' = Run(Wrapped(p), result).result
                   /\ remap' = Run(Wrapped(p), result).remap
                   /\ invoked' = <<"ConditionalProcessor">> \o Run(Wrapped(p), result).invoked
              ELSE /\ result' = result
                   /\ tokens' = result
                   /\ \A i \in 0..token_list_len(result) : Apply(remap', i) = i
                   /\ invoked' = <<"ConditionalProcessor">>
    ]_vars

\* C12's case: a PasswordProcessor and a BeforeInput behind a false filter
\* leave a non-empty list alone; a PasswordProcessor behind a true one masks it.
C12_Witness ==
    /\ proc = "ConditionalProcessor" /\ input # <<>>
    /\ \/ /\ stages = 2
          /\ chain[1] = ConditionalProcessor(PasswordProcessor("*"), FALSE)
          /\ chain[2] = ConditionalProcessor(BeforeInput(Prompt2), FALSE)
          /\ result = input
       \/ /\ stages = 1
          /\ chain[1] = ConditionalProcessor(PasswordProcessor("*"), TRUE)
          /\ result = PasswordRun(input, "*") /\ result # input

-----------------------------------------------------------------------------
(* Properties of the invalidation hashes and of the highlighting stages. *)

\* Every CommandLineInterface, and the buffer of the state with every
\* cursor position.
Clis == [is_returning : BOOLEAN, has_focus : BOOLEAN]
BufferAt(c) == [TheBuffer EXCEPT !.cursor_position = c]
Cursors == 0..Len(document_text)

\* The last stage was a ConditionalProcessor whose filter was false.
InactiveConditional ==
    proc = "ConditionalProcessor" /\ ~Head(LastStage.filters)

\* The hash is none of those a ConditionalProcessor with a true filter
\* returns, whatever it wraps, wherever the cursor is.
NoActiveHash ==
    \A q \in ActiveConditionals, cli \in Clis, c \in Cursors :
        hash # invalidation_hash(q, cli, BufferAt(c))

\* The hash is none of those the wrapped processor returns.
NoWrappedHash ==
    \A cli \in Clis, c \in Cursors :
        hash # invalidation_hash(Wrapped(LastStage), cli, BufferAt(c))

\* C13: the value ConditionalProcessor.invalidation_hash returns when the
\* filter is false is one fixed value, equal to no value the
\* invalidation_hash of the wrapped processor returns, whichever processor
\* that is, and to no value a ConditionalProcessor with a true filter
\* returns.
C13_InactiveHashDistinct ==
    InactiveConditional =>
        /\ hash = PyBool(FALSE)
        /\ NoWrappedHash
        /\ NoActiveHash

\* The wrapped processor returns False itself at times: it is a
\* HighlightMatchingBracketProcessor or a ConditionalProcessor.
WrappedReturnsFalse ==
    \/ Wrapped(LastStage).filters # <<>>
    \/ Wrapped(LastStage).cls = "HighlightMatchingBracketProcessor"

\* C13, amended: the value is False; it is equal to no value a
\* ConditionalProcessor with a true filter returns, and to no value of the
\* invalidation_hash of a wrapped processor other than a
\* HighlightMatchingBracketProcessor or a ConditionalProcessor.
C13_InactiveHash_Amended ==
    InactiveConditional =>
        /\ hash = PyBool(FALSE)
        /\ NoActiveHash
        /\ ~WrappedReturnsFalse => NoWrappedHash

\* C13's case: the hash of an inactive ConditionalProcessor around a
\* HighlightMatchingBracketProcessor whose own hash is False too, the cursor
\* being on the second letter of "aa".
C13_Witness ==
    /\ InactiveConditional
    /\ LastStage = ConditionalProcessor(HighlightMatchingBracketProcessor, FALSE)
    /\ document_text = <<"a", "a">> /\ buffer_cursor_position = 1
    /\ ~is_returning /\ has_focus
    /\ hash = PyBool(FALSE)
    /\ invalidation_hash(HighlightMatchingBracketProcessor, TheCli, TheBuffer) = hash

\* The offsets of the occurrences of the search text, and those of the
\* occurrences that hold the cursor.
SearchText == isearch_state[1]
Occurrences == find_all(TheBuffer, SearchText)
Holds(k, offset) == k <= offset /\ offset < k + Len(SearchText)
CurrentOccurrences == {k \in Occurrences : Holds(k, buffer_cursor_position)}

\* C14: with a search text that is not empty, HighlightSearchProcessor.run
\* gives every character of an occurrence that holds the cursor, from its
\* first to its last character, the tag Token.SearchMatch.Current and every
\* character of the other occurrences the tag Token.SearchMatch; it changes
\* no text and not the length of the list.
C14_CurrentSearchMatch ==
    (proc = "HighlightSearchProcessor" /\ isearch_state # NoSearch /\ SearchText # <<>>) =>
        /\ \A k \in Occurrences, j \in 0..(Len(document_text) - 1) :
              Holds(k, j) =>
                 IF \E c \in CurrentOccurrences : Holds(c, j)
                 THEN result[j + 1][1] = "Token.SearchMatch.Current"
                 ELSE result[j + 1][1] = "Token.SearchMatch"
        /\ Len(result) = Len(input)
        /\ Texts(result) = Texts(input)

\* C15: for HighlightSearchProcessor and HighlightMatchingBracketProcessor,
\* two states that differ in the cursor position only and for which run
\* returns different lists have different invalidation hashes: where the
\* hash of the state with the cursor moved equals the hash of this state,
\* run returns the same list.
C15_HashCoversCursor ==
    proc \in {"HighlightSearchProcessor", "HighlightMatchingBracketProcessor"} =>
        \A c \in Cursors :
            invalidation_hash(LastStage, TheCli, BufferAt(c)) = hash
                => RunWith(LastStage, TheCli, BufferAt(c), input).result = result

-----------------------------------------------------------------------------
(* Properties of WritePosition. *)

\* C16: every WritePosition that is constructed has xpos, ypos, width,
\* height and extended_height all >= 0 and extended_height >= height, the
\* extended_height being the height when none is given; a call with a
\* negative coordinate or dimension is rejected and gives no object.
C16_WritePositionInvariant ==
    write_position # <<>> =>
        LET args == write_position[1]
            obj == write_position[2]
        IN  /\ obj # NoObject =>
                  /\ \A k \in 1..5 : obj[k] >= 0
                  /\ obj[5] >= obj[4]
                  /\ args[5] = <<>> => obj[5] = obj[4]
            /\ ((\E k \in 1..4 : args[k] < 0) \/ (args[5] # <<>> /\ args[5][1] < 0))
                  => obj = NoObject

-----------------------------------------------------------------------------
(* Properties of the bracket scan, stated against a scan of the texts alone. *)

RoundSquareCurly == {<<"(", ")">>, <<"[", "]">>, <<"{", "}">>}
WithAngle == RoundSquareCurly \cup {<<"<", ">">>}

\* The scan of the first n of the characters `string`, with the bracket
\* pairs `pairs`: the offsets (from 1) of the opening brackets not yet
\* closed, and those of the closing brackets met while the stack was empty
\* or its top was another opener.
RECURSIVE RefScan(_, _, _)
RefScan(string, pairs, n) ==
    IF n = 0 THEN [stack |-> <<>>, errors |-> {}]
    ELSE LET before == RefScan(string, pairs, n - 1)
             c == string[n]
         IN  IF \E q \in pairs : c = q[1]
             THEN [before EXCEPT !.stack = Append(@, n)]
             ELSE IF \E q \in pairs : c = q[2]
             THEN IF /\ before.stack # <<>>
                     /\ <<string[Last(before.stack)], c>> \in pairs
                  THEN [before EXCEPT !.stack = Pop(@)]
                  ELSE [before EXCEPT !.errors = @ \cup {n}]
             ELSE before

RefErrors(string, pairs) ==
    LET end == RefScan(string, pairs, Len(string))
    IN  end.errors \cup {end.stack[k] : k \in 1..Len(end.stack)}

\* The characters of a list of one-character tokens.
StringOf(toks) == [i \in 1..Len(toks) |-> toks[i][2][1]]

\* The result differs from the input in the tags of the positions with
\* the error tag at most.
OnlyErrorTagsAdded ==
    /\ Len(result) = Len(input)
    /\ Texts(result) = Texts(input)
    /\ \A i \in 1..Len(input) : result[i] = input[i] \/ result[i][1] = error_token

\* C17: BracketsMismatchProcessor takes '<' for an opening and '>' for a
\* closing bracket like the other pairs: a '<' or '>' without its match
\* gets the error tag, a '>' that closes the '<' before it does not.
C17_AngleBrackets ==
    (FirstBracketRun /\ OneCharPerToken(input)) =>
        ErrorPositions(result) = RefErrors(StringOf(input), WithAngle)

\* The list with every '<' and '>' replaced by a letter.
WithoutAngle(toks) ==
    [i \in 1..Len(toks) |->
        IF toks[i][2] \in {<<"<">>, <<">">>} THEN <<toks[i][1], <<"a">>>> ELSE toks[i]]

\* C17, amended: BracketsMismatchProcessor takes '(', '[', '{' and their
\* closers for brackets and nothing else: a '<' or a '>' never gets the
\* error tag and has no effect on the tags of the other characters.
C17_AngleBrackets_Amended ==
    (FirstBracketRun /\ OneCharPerToken(input)) =>
        /\ \A i \in 1..Len(input) :
              input[i][2] \in {<<"<">>, <<">">>} => result[i] = input[i]
        /\ ErrorPositions(result) = ErrorPositions(BracketsMismatchRun(WithoutAngle(input)))

\* C17's case: "<)" and ">" scanned; the ')' alone gets the error tag.
C17_Witness ==
    /\ FirstBracketRun
    /\ \/ IsStream(input, <<"<", ")">>) /\ ErrorPositions(result) = {2}
       \/ IsStream(input, <<">">>) /\ result = input

\* C18: after BracketsMismatchProcessor.run on a list of one-character
\* tokens, the positions with the error tag are exactly the closing
\* brackets met when the stack was empty or its top was not the matching
\* opener (such a closer leaves the stack alone) and the opening brackets
\* on the stack at the end; every other position keeps its tag, and no
\* text and not the length changes.
C18_ExactErrorSet ==
    (FirstBracketRun /\ OneCharPerToken(input)) =>
        /\ ErrorPositions(result) = RefErrors(StringOf(input), RoundSquareCurly)
        /\ OnlyErrorTagsAdded

\* C18's case: "(a" gets one error tag, at the '(', and "(a]" two.
C18_Witness ==
    /\ FirstBracketRun
    /\ \/ IsStream(input, <<"(", "a">>) /\ ErrorPositions(result) = {1}
       \/ IsStream(input, <<"(", "a", "]">>) /\ ErrorPositions(result) = {1, 3}

-----------------------------------------------------------------------------
(* Properties of the line feeds of write_data. *)

\* The logical line of the character at offset i: the newlines before it.
LineOf(i) == Cardinality({j \in 0..(i - 1) : CharAt(j) = NL})

\* The logical lines that hold a character, and the offset of the first
\* character of such a line.
LinesWithChars == {LineOf(i) : i \in 0..(NChars - 1)}
FirstOf(n) == CHOOSE i \in 0..(NChars - 1) :
                 LineOf(i) = n /\ \A j \in 0..(NChars - 1) : LineOf(j) = n => i <= j

IsNumbered(e) == e.number # NoNumber
NumberedFeeds == SelectSeq(line_feeds, IsNumbered)
IsContinuation(e) == e.number = NoNumber
ContinuationFeeds == SelectSeq(line_feeds, IsContinuation)

\* C19: with a margin function, the function is called with the line
\* number n once for each logical line n that holds a character of the
\* stream (its newline counts), in increasing order of n and before the
\* first character of the line gets its position, and with None once per
\* soft wrap; screen_line_to_input_line gets its entries row -> n from the
\* numbered line feeds only: no row of a soft wrap is a key, and the
\* mapping increases strictly.
C19_MarginProtocol ==
    FreshWrite =>
        /\ Len(NumberedFeeds) = Cardinality(LinesWithChars)
        /\ \A k \in 1..Len(NumberedFeeds) :
              /\ NumberedFeeds[k].number = Number(k - 1)
              /\ (k - 1) \in LinesWithChars
              /\ NumberedFeeds[k].index = FirstOf(k - 1)
              /\ ~NumberedFeeds[k].placed
        /\ Len(ContinuationFeeds) = wraps
        /\ \A k \in 1..Len(line_feeds) : line_feeds[k].called = (margin # MarginNone)
        /\ DOMAIN screen_line_to_input_line
              = {NumberedFeeds[k].y : k \in 1..Len(NumberedFeeds)}
        /\ \A k \in 1..Len(NumberedFeeds) :
              screen_line_to_input_line[NumberedFeeds[k].y] = k - 1
        /\ \A k \in 1..Len(ContinuationFeeds) :
              ContinuationFeeds[k].y \notin DOMAIN screen_line_to_input_line
        /\ \A r1, r2 \in DOMAIN screen_line_to_input_line :
              r1 < r2 => screen_line_to_input_line[r1] < screen_line_to_input_line[r2]

\* C19's case: two logical lines behind line numbers, the first of them
\* soft-wrapped: rows 0 and 2 are keys, row 1 is not.
C19_Witness ==
    /\ FreshWrite /\ margin = "numbers" /\ wraps = 1
    /\ Len(NumberedFeeds) = 2 /\ Len(ContinuationFeeds) = 1
    /\ DOMAIN screen_line_to_input_line = {0, 2}
    /\ screen_line_to_input_line[2] = 1

\* C20: write_data goes through every character of the stream once, in
\* order, wraps at most once per character, and ends with current_height
\* at most the number of characters + 1 (or what it was), for every target
\* width from 0 on and every margin; with an empty stream it leaves the
\* grid, current_height and screen_line_to_input_line as they were and
\* returns an empty map.
C20_WriteDataTerminates ==
    [][op' = "write_data" =>
          LET n == Len(Flatten(data'))
          IN  /\ consumed' = [i \in 1..n |-> i - 1]
              /\ DOMAIN indexes_to_pos' = 0..(n - 1)
              /\ wraps' <= n
              /\ \A j, k \in 1..Len(line_feeds') :
                    (j # k /\ line_feeds'[j].number = NoNumber
                           /\ line_feeds'[k].number = NoNumber)
                        => line_feeds'[j].index # line_feeds'[k].index
              /\ current_height' <= Max(current_height, n + 1)
              /\ n = 0 => /\ UNCHANGED <<buffer, current_height, screen_line_to_input_line>>
                          /\ indexes_to_pos' = EmptyMap
    ]_vars

\* C20's case: three characters behind a margin wider than the target
\* width, each of them wrapped; and a stream without characters.
C20_Witness ==
    \/ /\ FreshWrite /\ NChars = 3 /\ wraps = 3 /\ current_height = 4
       /\ margin = "prompt" /\ target_width = 1
    \/ /\ FreshWrite /\ data = <<>> /\ current_height = 1
       /\ buffer = EmptyMap /\ indexes_to_pos = EmptyMap

-----------------------------------------------------------------------------
(* Properties of the composed remap of chains that insert and retag. *)

\* The characters of a token list, in order.
CharsOf(toks) == [k \in 1..Len(Flatten(toks)) |-> Flatten(toks)[k][2]]

\* C21: for every chain of BeforeInput, AfterInput, ConditionalProcessor and
\* the retagging processors, in any order, on a list of one-character
\* tokens, the composed remap f sends every offset i of the original list
\* to a position of the final list that holds the character the original
\* list holds at i, and the original characters keep their order in the
\* final list.
C21_RemapSameCharacter ==
    OneCharPerToken(input) =>
        LET original == CharsOf(input)
            final == CharsOf(result)
        IN  /\ \A i \in 0..(Len(original) - 1) :
                  /\ composed[i] \in 0..(Len(final) - 1)
                  /\ final[composed[i] + 1] = original[i + 1]
            /\ \A i, j \in 0..(Len(original) - 1) :
                  i < j => composed[i] < composed[j]

\* C21's case: "(a)" with the cursor on its '(' behind a prompt of two
\* characters, then bracket-highlighted, and the same in the other order
\* with a toolbar after it.
C21_Witness ==
    /\ stages = 2 /\ document_text = <<"(", "a", ")">> /\ buffer_cursor_position = 0
    /\ \/ /\ chain = <<BeforeInput(Prompt2), HighlightMatchingBracketProcessor>>
          /\ composed[0] = 2 /\ CharsOf(result)[3] = "("
          /\ result # Prompt2 \o input
       \/ /\ chain = <<HighlightMatchingBracketProcessor, AfterInput(Toolbar)>>
          /\ composed[2] = 2 /\ CharsOf(result)[3] = ")"
          /\ result[3][1] = "Token.MatchingBracket"

====
